---- MODULE Spec2Model ----
(***************************************************************************)
(* A model of ftpd's configuration provider (source/ftpConfig.cpp) and of  *)
(* its filesystem abstraction (source/fs.cpp).                             *)
(*                                                                         *)
(* Strings are sequences of one-character strings.  The build modelled is  *)
(* the generic one (neither NDS nor _3DS is defined).                      *)
(***************************************************************************)
EXTENDS Integers, Sequences, FiniteSets, TLC

VARIABLES
    \* FtpConfig
    m_user, m_pass, m_port, m_deflateLevel,
    disk,        \* contents of the configuration file, or NoFile
    last,        \* the last operation: [op, arg, ret, pre]
    \* fs::File and fs::Dir objects and the handles of the C library
    objs,        \* object -> [alive, h]: h is m_fp / m_dp, Null when empty
    obtained,    \* how many handles fopen / opendir have returned
    closes,      \* handle -> how often fclose / closedir was called on it
    hLast,       \* the last operation on an object: [op, obj, ret]
    \* calls of fs::File::readAll / writeAll, fs::File::seek, fs::printSize
    io,          \* the running readAll / writeAll
    sk,          \* the call of seek
    ps           \* the call of printSize

cfgVars == <<m_user, m_pass, m_port, m_deflateLevel, disk, last>>
fsVars == <<objs, obtained, closes, hLast>>

vars == <<cfgVars, fsVars, io, sk, ps>>

notCfg == <<fsVars, io, sk, ps>>
notFs == <<cfgVars, io, sk, ps>>
notIo == <<cfgVars, fsVars, sk, ps>>
notSk == <<cfgVars, fsVars, io, ps>>
notPs == <<cfgVars, fsVars, io, sk>>

(***************************************************************************)
(* Characters and strings                                                  *)
(***************************************************************************)
NUL == "\\0"
LF == "\n"
TAB == "\t"
Digits == <<"0", "1", "2", "3", "4", "5", "6", "7", "8", "9">>
DigitChars == {Digits[i] : i \in 1..10}

\* c - '0' for a digit character
DigitVal(c) == (CHOOSE i \in 1..10 : Digits[i] = c) - 1

\* std::isdigit
isdigit(c) == c \in DigitChars

\* the characters of a number printed with %u
RECURSIVE FormatU(_)
FormatU(n) ==
    IF n < 10 THEN <<Digits[n + 1]>>
    ELSE Append(FormatU(n \div 10), Digits[(n % 10) + 1])

\* what %s prints of s.c_str(), and what substr(0, find_first_of('\0')) keeps
UpToNul(s) ==
    IF \E i \in 1..Len(s) : s[i] = NUL
    THEN SubSeq(s, 1, (CHOOSE i \in 1..Len(s) :
                          s[i] = NUL /\ \A j \in 1..(i - 1) : s[j] # NUL) - 1)
    ELSE s

(***************************************************************************)
(* ftpConfig.cpp, anonymous namespace                                      *)
(***************************************************************************)
DEFAULT_PORT == 5000
DEFAULT_DEFLATE_LEVEL == 6
UINT16_MAX == 65535
INT_MAX == 2147483647
Z_NO_COMPRESSION == 0
Z_BEST_COMPRESSION == 9
PRIVILEGED_PORTS == 1024

Blank == {" ", TAB}

strip(str_) ==
    LET notBlank == {i \in 1..Len(str_) : str_[i] \notin Blank}
    IN IF notBlank = {} THEN <<>>
       ELSE LET start == CHOOSE i \in notBlank : \A j \in notBlank : i <= j
                end == CHOOSE i \in notBlank : \A j \in notBlank : j <= i
            IN SubSeq(str_, start, end)

\* parseInt<T>: max is numeric_limits<T>::max(); the result is [ok, val],
\* where val is what out_ is set to when ok
RECURSIVE parseIntLoop(_, _, _)
parseIntLoop(max, rest, val) ==
    IF rest = <<>> THEN [ok |-> TRUE, val |-> val]
    ELSE LET c == Head(rest) IN
         IF ~isdigit(c) THEN [ok |-> FALSE, val |-> 0]
         ELSE IF max \div 10 < val THEN [ok |-> FALSE, val |-> 0]
         ELSE LET v10 == val * 10
                  v == DigitVal(c)
              IN IF max - v < v10 THEN [ok |-> FALSE, val |-> 0]
                 ELSE parseIntLoop(max, Tail(rest), v10 + v)

parseInt(max, val_) ==
    IF val_ = <<>> THEN [ok |-> FALSE, val |-> 0]
    ELSE parseIntLoop(max, val_, 0)

(***************************************************************************)
(* FtpConfig: a configuration is [user, pass, port, deflateLevel]          *)
(***************************************************************************)
Config(u, p, port, level) ==
    [user |-> u, pass |-> p, port |-> port, deflateLevel |-> level]

\* FtpConfig::FtpConfig / FtpConfig::create
create == Config(<<>>, <<>>, DEFAULT_PORT, DEFAULT_DEFLATE_LEVEL)

\* setPort(std::uint16_t): [ok, config]
setPortRejectsZero(c, port_) ==
    IF port_ < PRIVILEGED_PORTS
    THEN [ok |-> FALSE, cfg |-> c]
    ELSE [ok |-> TRUE, cfg |-> [c EXCEPT !.port = port_]]

setPort(c, port_) ==
    IF port_ < PRIVILEGED_PORTS /\ port_ # 0
    THEN [ok |-> FALSE, cfg |-> c]
    ELSE [ok |-> TRUE, cfg |-> [c EXCEPT !.port = port_]]

\* setPort(std::string const &)
setPortStr(c, port_) ==
    LET parsed == parseInt(UINT16_MAX, port_)
    IN IF ~parsed.ok THEN [ok |-> FALSE, cfg |-> c]
       ELSE setPort(c, parsed.val)

\* setDeflateLevel(int)
setDeflateLevelClamp(c, level_) ==
    IF level_ < Z_NO_COMPRESSION THEN [ok |-> FALSE, cfg |-> c]
    ELSE IF level_ > Z_BEST_COMPRESSION
    THEN [ok |-> TRUE, cfg |-> [c EXCEPT !.deflateLevel = Z_BEST_COMPRESSION]]
    ELSE [ok |-> TRUE, cfg |-> [c EXCEPT !.deflateLevel = level_]]

setDeflateLevelUnchecked(c, level_) ==
    [ok |-> TRUE, cfg |-> [c EXCEPT !.deflateLevel = level_]]

setDeflateLevel(c, level_) ==
    IF level_ < Z_NO_COMPRESSION \/ level_ > Z_BEST_COMPRESSION
    THEN [ok |-> FALSE, cfg |-> c]
    ELSE [ok |-> TRUE, cfg |-> [c EXCEPT !.deflateLevel = level_]]

\* setDeflateLevel(std::string const &)
setDeflateLevelStr(c, level_) ==
    LET parsed == parseInt(INT_MAX, level_)
    IN IF ~parsed.ok THEN [ok |-> FALSE, cfg |-> c]
       ELSE setDeflateLevel(c, parsed.val)

setUser(c, user_) == [c EXCEPT !.user = UpToNul(user_)]

setPass(c, pass_) == [c EXCEPT !.pass = UpToNul(pass_)]

(***************************************************************************)
(* The configuration file                                                  *)
(***************************************************************************)
NoFile == "NoFile"

\* fs::File::readLine, which fs.cpp does not define: taken to return the
\* next line without its line feed (and what follows it), and an empty
\* line at the end of the file, which is what load's loop relies on
readLine(content) ==
    IF \E i \in 1..Len(content) : content[i] = LF
    THEN LET nl == CHOOSE i \in 1..Len(content) :
                      content[i] = LF /\ \A j \in 1..(i - 1) : content[j] # LF
         IN [line |-> SubSeq(content, 1, nl - 1),
             rest |-> SubSeq(content, nl + 1, Len(content))]
    ELSE [line |-> content, rest |-> <<>>]

KeyUser == <<"u", "s", "e", "r">>
KeyPass == <<"p", "a", "s", "s">>
KeyPort == <<"p", "o", "r", "t">>
KeyDeflateLevel ==
    <<"d", "e", "f", "l", "a", "t", "e", "L", "e", "v", "e", "l">>

\* the body of load's while loop for one line: st is [cfg, port, deflateLevel]
loadLine(st, line) ==
    IF ~\E i \in 1..Len(line) : line[i] = "="
    THEN st
    ELSE LET pos == CHOOSE i \in 1..Len(line) :
                       line[i] = "=" /\ \A j \in 1..(i - 1) : line[j] # "="
             key == strip(SubSeq(line, 1, pos - 1))
             val == strip(SubSeq(line, pos + 1, Len(line)))
         IN IF key = <<>> \/ val = <<>> THEN st
            ELSE IF key = KeyUser THEN [st EXCEPT !.cfg.user = val]
            ELSE IF key = KeyPass THEN [st EXCEPT !.cfg.pass = val]
            ELSE IF key = KeyPort
            THEN LET r == parseInt(UINT16_MAX, val)
                 IN IF r.ok THEN [st EXCEPT !.port = r.val] ELSE st
            ELSE IF key = KeyDeflateLevel
            THEN LET r == parseInt(INT_MAX, val)
                 IN IF r.ok THEN [st EXCEPT !.deflateLevel = r.val] ELSE st
            ELSE st

RECURSIVE loadLoop(_, _)
loadLoop(st, content) ==
    LET r == readLine(content)
    IN IF r.line = <<>> THEN st
       ELSE loadLoop(loadLine(st, r.line), r.rest)

\* the end of load: both locals go through the setters
loadFinishUnchecked(st) ==
    LET a == IF st.port = 0 \/ st.port >= PRIVILEGED_PORTS
             THEN [st.cfg EXCEPT !.port = st.port] ELSE st.cfg
    IN [a EXCEPT !.deflateLevel = st.deflateLevel]

loadFinish(st) ==
    LET a == setPort(st.cfg, st.port).cfg
    IN setDeflateLevel(a, st.deflateLevel).cfg

\* FtpConfig::load
load(file) ==
    IF file = NoFile THEN create
    ELSE loadFinish(loadLoop([cfg |-> create, port |-> DEFAULT_PORT,
                              deflateLevel |-> DEFAULT_DEFLATE_LEVEL], file))

\* what FtpConfig::save writes
saveText(c) ==
    (IF c.user # <<>> THEN KeyUser \o <<"=">> \o UpToNul(c.user) \o <<LF>>
     ELSE <<>>)
    \o (IF c.pass # <<>> THEN KeyPass \o <<"=">> \o UpToNul(c.pass) \o <<LF>>
        ELSE <<>>)
    \o KeyPort \o <<"=">> \o FormatU(c.port) \o <<LF>>
    \o KeyDeflateLevel \o <<"=">> \o FormatU(c.deflateLevel)
(***************************************************************************)
(* Inputs of the configuration model                                       *)
(***************************************************************************)
MaxLines == 2

\* a line of a configuration file: key, '=' (when eq), value, with blanks
\* around both when padded
ConfigLine(key, val, eq, padded) ==
    [key |-> key, val |-> val, eq |-> eq, padded |-> padded]

LineText(l) ==
    IF ~l.eq THEN l.key
    ELSE IF l.padded THEN <<" ">> \o l.key \o <<" ", "=", TAB>> \o l.val \o <<" ">>
    ELSE l.key \o <<"=">> \o l.val

LineInputs ==
    { ConfigLine(KeyPort, <<"2", "0", "0", "0">>, TRUE, FALSE),
      ConfigLine(KeyPort, <<"8", "0">>, TRUE, FALSE),
      ConfigLine(KeyPort, <<"6", "5", "5", "3", "6">>, TRUE, FALSE),
      ConfigLine(KeyPort, <<"1", "0", "2", "4">>, TRUE, TRUE),
      ConfigLine(KeyPort, <<"0">>, TRUE, FALSE),
      ConfigLine(KeyPort, <<"1", "x">>, TRUE, FALSE),
      ConfigLine(KeyPort, <<>>, FALSE, FALSE),
      ConfigLine(KeyDeflateLevel, <<"3">>, TRUE, FALSE),
      ConfigLine(KeyDeflateLevel, <<"1", "2">>, TRUE, FALSE),
      ConfigLine(KeyDeflateLevel, <<"0", "9">>, TRUE, TRUE),
      ConfigLine(KeyDeflateLevel,
                 <<"4", "2", "9", "4", "9", "6", "7", "2", "9", "9">>,
                 TRUE, FALSE),
      ConfigLine(KeyUser, <<"a">>, TRUE, FALSE) }

RECURSIVE SeqsUpTo(_, _)
SeqsUpTo(S, n) ==
    IF n = 0 THEN {<<>>}
    ELSE LET shorter == SeqsUpTo(S, n - 1)
         IN shorter \cup {Append(q, x) : q \in shorter, x \in S}

\* the text of a file holding the given lines, each ended by a line feed
\* except, without nl, the last one
RECURSIVE FileText(_, _)
FileText(lines, nl) ==
    IF lines = <<>> THEN <<>>
    ELSE LineText(Head(lines))
         \o (IF Len(lines) > 1 \/ nl THEN <<LF>> ELSE <<>>)
         \o FileText(Tail(lines), nl)

PortStrInputs ==
    { <<>>, <<"0">>, <<"8", "0">>, <<"1", "0", "2", "3">>,
      <<"1", "0", "2", "4">>, <<"0", "0", "1", "0", "2", "4">>,
      <<"6", "5", "5", "3", "5">>, <<"0", "6", "5", "5", "3", "5">>,
      <<"6", "5", "5", "3", "6">>, <<"6", "6", "5", "6", "0">>,
      <<"6", "5", "5", "4", "0">>, <<"9", "9", "9", "9", "9", "9">>,
      <<"2", "0", "0", "0", "x">>, <<"-", "1">>, <<" ", "2", "0", "0", "0">>,
      <<"+", "2", "0", "0", "0">> }

PortInputs == {0, 1023, 1024, 65535}

LevelStrInputs ==
    { <<>>, <<"0">>, <<"5">>, <<"9">>, <<"1", "0">>, <<"0", "0", "7">>,
      <<"-", "1">>, <<"5", "a">>, <<" ", "5">>, <<"5", NUL>>,
      <<"2", "1", "4", "7", "4", "8", "3", "6", "4", "7">>,
      <<"2", "1", "4", "7", "4", "8", "3", "6", "4", "8">>,
      <<"4", "2", "9", "4", "9", "6", "7", "3", "0", "1">>,
      <<"9", "9", "9", "9", "9", "9", "9", "9", "9", "9", "9", "9">> }

LevelInputs == {-1, 0, 9, 10, INT_MAX}

NameInputs ==
    { <<>>, <<"a">>, <<" ", "a">>, <<"a", NUL, "b">> }

(***************************************************************************)
(* The configuration provider as a state machine                           *)
(***************************************************************************)
Current == Config(m_user, m_pass, m_port, m_deflateLevel)

Becomes(c) ==
    /\ m_user' = c.user
    /\ m_pass' = c.pass
    /\ m_port' = c.port
    /\ m_deflateLevel' = c.deflateLevel

Starts(c) ==
    /\ m_user = c.user
    /\ m_pass = c.pass
    /\ m_port = c.port
    /\ m_deflateLevel = c.deflateLevel

Did(op, arg, ret) ==
    last' = [op |-> op, arg |-> arg, ret |-> ret, pre |-> Current]

InitCreate ==
    /\ Starts(create)
    /\ disk = NoFile
    /\ last = [op |-> "create", arg |-> <<>>, ret |-> TRUE, pre |-> create]

InitLoad ==
    \E lines \in SeqsUpTo(LineInputs, MaxLines), nl \in BOOLEAN :
        /\ Starts(load(FileText(lines, nl)))
        /\ disk = NoFile
        /\ last = [op |-> "load", arg |-> lines, ret |-> TRUE, pre |-> create]

InitLoadMissing ==
    /\ Starts(load(NoFile))
    /\ disk = NoFile
    /\ last = [op |-> "load", arg |-> NoFile, ret |-> FALSE, pre |-> create]

SetPortStr ==
    \E s \in PortStrInputs :
        LET r == setPortStr(Current, s)
        IN Becomes(r.cfg) /\ Did("setPortStr", s, r.ok) /\ UNCHANGED <<disk, notCfg>>

SetPort ==
    \E n \in PortInputs :
        LET r == setPort(Current, n)
        IN Becomes(r.cfg) /\ Did("setPort", n, r.ok) /\ UNCHANGED <<disk, notCfg>>

SetDeflateLevelStr ==
    \E s \in LevelStrInputs :
        LET r == setDeflateLevelStr(Current, s)
        IN Becomes(r.cfg) /\ Did("setDeflateLevelStr", s, r.ok)
           /\ UNCHANGED <<disk, notCfg>>

SetDeflateLevel ==
    \E n \in LevelInputs :
        LET r == setDeflateLevel(Current, n)
        IN Becomes(r.cfg) /\ Did("setDeflateLevel", n, r.ok)
           /\ UNCHANGED <<disk, notCfg>>

SetUser ==
    \E s \in NameInputs :
        Becomes(setUser(Current, s)) /\ Did("setUser", s, TRUE)
        /\ UNCHANGED <<disk, notCfg>>

SetPass ==
    \E s \in NameInputs :
        Becomes(setPass(Current, s)) /\ Did("setPass", s, TRUE)
        /\ UNCHANGED <<disk, notCfg>>

(***************************************************************************)
(* Saving and loading                                                      *)
(***************************************************************************)
\* FtpConfig::save: mkdirParent or the open may fail, and then nothing is
\* written; otherwise the file holds what save prints
Save ==
    \/ /\ disk' = saveText(Current)
       /\ Becomes(Current)
       /\ Did("save", <<>>, TRUE)
       /\ UNCHANGED notCfg
    \/ /\ UNCHANGED <<disk, notCfg>>
       /\ Becomes(Current)
       /\ Did("save", <<>>, FALSE)

\* config = FtpConfig::load (path)
Load ==
    /\ Becomes(load(disk))
    /\ Did("load",
           IF last.op = "save" /\ last.ret THEN "saved" ELSE "other",
           disk # NoFile)
    /\ UNCHANGED <<disk, notCfg>>

(***************************************************************************)
(* Decimal numerals, for stating what the setters and load must accept     *)
(***************************************************************************)
AllDigits(s) == s # <<>> /\ \A i \in 1..Len(s) : s[i] \in DigitChars

\* s without its leading zeros
Significant(s) ==
    LET nz == {i \in 1..Len(s) : s[i] # "0"}
    IN IF nz = {} THEN <<>>
       ELSE SubSeq(s, CHOOSE i \in nz : \A j \in nz : i <= j, Len(s))

\* the numeral s denotes at most what the numeral bound denotes
DenotesAtMost(s, bound) ==
    LET t == Significant(s)
    IN \/ Len(t) < Len(bound)
       \/ /\ Len(t) = Len(bound)
          /\ \A i \in 1..Len(t) :
                (\A j \in 1..(i - 1) : t[j] = bound[j])
                    => DigitVal(t[i]) <= DigitVal(bound[i])

RECURSIVE Denoted(_)
Denoted(s) ==
    IF s = <<>> THEN 0
    ELSE 10 * Denoted(SubSeq(s, 1, Len(s) - 1)) + DigitVal(s[Len(s)])

NumeralUint16Max == <<"6", "5", "5", "3", "5">>
NumeralIntMax == <<"2", "1", "4", "7", "4", "8", "3", "6", "4", "7">>

IsUint16(s) == AllDigits(s) /\ DenotesAtMost(s, NumeralUint16Max)
IsInt(s) == AllDigits(s) /\ DenotesAtMost(s, NumeralIntMax)
UsablePort(n) == n = 0 \/ n \in 1024..65535
IsLevel(s) == AllDigits(s) /\ DenotesAtMost(s, <<"9">>)

(***************************************************************************)
(* C1: in every reachable state of an FtpConfig, deflateLevel() is an      *)
(* integer in 0..9.                                                        *)
(***************************************************************************)
C1_DeflateLevelInRange == m_deflateLevel \in 0..9

C1_Witness ==
    /\ last.op = "setDeflateLevel"
    /\ last.arg = 10
    /\ m_deflateLevel = 9

(***************************************************************************)
(* C2: setDeflateLevel rejects, and does not clamp: called with an integer *)
(* outside 0..9, or with a string that is empty, has a non-digit,          *)
(* overflows int or denotes more than 9, it returns false and leaves       *)
(* deflateLevel() as it was; called with a value in 0..9 it returns true   *)
(* and deflateLevel() is that value.                                       *)
(***************************************************************************)
C2_RejectsNotClamps ==
    /\ last.op = "setDeflateLevel" =>
          /\ last.ret = (last.arg \in 0..9)
          /\ m_deflateLevel = IF last.arg \in 0..9 THEN last.arg
                              ELSE last.pre.deflateLevel
    /\ last.op = "setDeflateLevelStr" =>
          /\ last.ret = IsLevel(last.arg)
          /\ m_deflateLevel = IF IsLevel(last.arg) THEN Denoted(last.arg)
                              ELSE last.pre.deflateLevel

C2_Witness ==
    /\ last.op = "setDeflateLevelStr"
    /\ last.arg = <<"4", "2", "9", "4", "9", "6", "7", "3", "0", "1">>
    /\ ~last.ret
    /\ m_deflateLevel = 9

(***************************************************************************)
(* C7: setPort(string) returns true exactly for non-empty strings of       *)
(* decimal digits that denote at most 65535 and either 0 or at least 1024; *)
(* on true port() is that value, on false port() is unchanged; so port()   *)
(* is always 0 or in 1024..65535.                                          *)
(***************************************************************************)
C7_SetPortString ==
    /\ UsablePort(m_port)
    /\ last.op = "setPortStr" =>
          LET good == IsUint16(last.arg) /\ UsablePort(Denoted(last.arg))
          IN /\ last.ret = good
             /\ m_port = IF good THEN Denoted(last.arg) ELSE last.pre.port

C7_Witness ==
    /\ last.op = "setPortStr"
    /\ last.arg = <<"0">>
    /\ last.ret
    /\ last.pre.port = 65535
    /\ m_port = 0

(***************************************************************************)
(* What a sequence of configuration lines says                             *)
(***************************************************************************)
\* the lines of the file that set key to a value satisfying Good
Setting(lines, key, Good(_)) ==
    {i \in 1..Len(lines) :
        lines[i].eq /\ lines[i].key = key /\ Good(lines[i].val)}

Latest(S) == CHOOSE i \in S : \A j \in S : j <= i

ValidPortText(s) == IsUint16(s) /\ UsablePort(Denoted(s))

(***************************************************************************)
(* C8, as amended: load takes the last `port` line whose value is a        *)
(* decimal numeral of at most 65535, and the loaded port() is that value   *)
(* when it is 0 or at least 1024 and the default 5000 otherwise (also when *)
(* there is no such line); it takes the last `deflateLevel` line whose     *)
(* value is a decimal numeral of at most 2147483647, and the loaded        *)
(* deflateLevel() is that value when it is in 0..9 and the default 6       *)
(* otherwise.  A file that cannot be opened yields the defaults with empty *)
(* user and pass.                                                          *)
(***************************************************************************)
C8_LoadTakesLastParsed ==
    last.op = "load" =>
        IF last.arg = NoFile
        THEN Current = Config(<<>>, <<>>, 5000, 6)
        ELSE LET ports == Setting(last.arg, KeyPort, IsUint16)
                 levels == Setting(last.arg, KeyDeflateLevel, IsInt)
                 p == Denoted(last.arg[Latest(ports)].val)
                 l == Denoted(last.arg[Latest(levels)].val)
             IN /\ m_port = IF ports # {} /\ UsablePort(p) THEN p ELSE 5000
                /\ m_deflateLevel = IF levels # {} /\ l \in 0..9 THEN l ELSE 6

C8_Witness ==
    /\ last.op = "load"
    /\ last.arg # NoFile
    /\ Len(last.arg) = 2
    /\ last.arg[1].key = KeyPort /\ last.arg[1].val = <<"2", "0", "0", "0">>
    /\ last.arg[2].key = KeyPort /\ last.arg[2].val = <<"8", "0">>
    /\ m_port = 5000

\* C8 as stated: the loaded port() is the value of the last `port` line whose
\* value is a valid port, the loaded deflateLevel() that of the last
\* `deflateLevel` line whose value is in 0..9, the defaults without such lines
C8_LoadTakesLastValid ==
    (last.op = "load" /\ last.arg # NoFile) =>
        LET ports == Setting(last.arg, KeyPort, ValidPortText)
            levels == Setting(last.arg, KeyDeflateLevel, IsLevel)
        IN /\ m_port = IF ports = {} THEN 5000
                       ELSE Denoted(last.arg[Latest(ports)].val)
           /\ m_deflateLevel = IF levels = {} THEN 6
                               ELSE Denoted(last.arg[Latest(levels)].val)

(***************************************************************************)
(* C3: a successful save followed by load yields a configuration with the  *)
(* user, pass, port and deflateLevel of the saved one.                     *)
(***************************************************************************)
C3_SaveLoadRoundTrip ==
    (last.op = "load" /\ last.arg = "saved") => Current = last.pre

(***************************************************************************)
(* fs.cpp: fs::File and fs::Dir own their handle through a unique_ptr      *)
(* whose deleter is fclose / closedir                                      *)
(***************************************************************************)
MaxHandles == 3

Null == 0
Files == {"file1", "file2"}
Dirs == {"dir1", "dir2"}
Objects == Files \cup Dirs
Handles == 1..MaxHandles

SameClass(o, that) == (o \in Files) = (that \in Files)

\* the state of the objects and of the C library: [objs, obtained, closes]
FsState == [objs |-> objs, obtained |-> obtained, closes |-> closes]

\* the deleter runs on a handle the unique_ptr gives up, if it holds one
deleterNever(cl, h) == cl

deleter(cl, h) == IF h = Null THEN cl ELSE [cl EXCEPT ![h] = @ + 1]

\* fs::File::open / fs::Dir::open, where fopen / opendir returns fp (Null
\* when it fails): on failure the object is not touched; otherwise m_fp is
\* assigned a new unique_ptr, which closes the handle held before
openResetsFirst(st, o, fp) ==
    IF fp = Null
    THEN [st EXCEPT !.objs[o].h = Null,
                    !.closes = deleter(st.closes, st.objs[o].h)]
    ELSE [st EXCEPT !.objs[o].h = fp,
                    !.obtained = fp,
                    !.closes = deleter(st.closes, st.objs[o].h)]

open(st, o, fp) ==
    IF fp = Null THEN st
    ELSE [st EXCEPT !.objs[o].h = fp,
                    !.obtained = fp,
                    !.closes = deleter(st.closes, st.objs[o].h)]

\* fs::File::close / fs::Dir::close: m_fp.reset ()
close(st, o) ==
    [st EXCEPT !.objs[o].h = Null,
               !.closes = deleter(st.closes, st.objs[o].h)]

\* the defaulted move assignment: the unique_ptr takes that_'s handle,
\* closes its own and leaves that_ empty; moving an object into itself
\* changes nothing
moveAssign(st, o, that) ==
    IF o = that THEN st
    ELSE [st EXCEPT !.objs[o].h = st.objs[that].h,
                    !.objs[that].h = Null,
                    !.closes = deleter(st.closes, st.objs[o].h)]

\* the defaulted move constructor
moveConstruct(st, o, that) ==
    [st EXCEPT !.objs[o] = [alive |-> TRUE, h |-> st.objs[that].h],
               !.objs[that].h = Null]

\* the defaulted destructor
destroy(st, o) ==
    [st EXCEPT !.objs[o] = [alive |-> FALSE, h |-> Null],
               !.closes = deleter(st.closes, st.objs[o].h)]

\* operator bool
Bool(o) == objs[o].h # Null

FsBecomes(st) ==
    /\ objs' = st.objs
    /\ obtained' = st.obtained
    /\ closes' = st.closes

FsDid(op, o, ret) == hLast' = [op |-> op, obj |-> o, ret |-> ret]

FsInit ==
    /\ objs = [o \in Objects |-> [alive |-> FALSE, h |-> Null]]
    /\ obtained = 0
    /\ closes = [h \in Handles |-> 0]
    /\ hLast = [op |-> "none", obj |-> "none", ret |-> TRUE]

\* fs::File::File () / fs::Dir::Dir ()
Construct ==
    \E o \in Objects :
        /\ ~objs[o].alive
        /\ FsBecomes([FsState EXCEPT !.objs[o].alive = TRUE])
        /\ FsDid("construct", o, TRUE)
        /\ UNCHANGED notFs

MoveConstruct ==
    \E o \in Objects, that \in Objects :
        /\ ~objs[o].alive /\ objs[that].alive /\ SameClass(o, that)
        /\ FsBecomes(moveConstruct(FsState, o, that))
        /\ FsDid("moveConstruct", o, TRUE)
        /\ UNCHANGED notFs

Open ==
    \E o \in Objects :
        /\ objs[o].alive
        /\ \/ /\ obtained < MaxHandles
              /\ FsBecomes(open(FsState, o, obtained + 1))
              /\ FsDid("open", o, TRUE)
              /\ UNCHANGED notFs
           \/ /\ FsBecomes(open(FsState, o, Null))
              /\ FsDid("open", o, FALSE)
              /\ UNCHANGED notFs

Close ==
    \E o \in Objects :
        /\ objs[o].alive
        /\ FsBecomes(close(FsState, o))
        /\ FsDid("close", o, TRUE)
        /\ UNCHANGED notFs

MoveAssign ==
    \E o \in Objects, that \in Objects :
        /\ objs[o].alive /\ objs[that].alive /\ SameClass(o, that)
        /\ FsBecomes(moveAssign(FsState, o, that))
        /\ FsDid("moveAssign", o, TRUE)
        /\ UNCHANGED notFs

Destroy ==
    \E o \in Objects :
        /\ objs[o].alive
        /\ FsBecomes(destroy(FsState, o))
        /\ FsDid("destroy", o, TRUE)
        /\ UNCHANGED notFs

HandlesNext ==
    \/ Construct
    \/ MoveConstruct
    \/ Open
    \/ Close
    \/ MoveAssign
    \/ Destroy

(***************************************************************************)
(* C4: handles are released on every path with no leak: an object owns at  *)
(* most one open handle, no two objects own the same one, every handle a   *)
(* successful open obtained is closed exactly once (never twice, and it is *)
(* open exactly while an object owns it), and once every object is         *)
(* destroyed no handle remains open.                                       *)
(***************************************************************************)
Owners(h) == {o \in Objects : objs[o].h = h}

C4_NoLeakNoDoubleClose ==
    /\ \A o \in Objects : ~objs[o].alive => objs[o].h = Null
    /\ \A h \in Handles :
          IF h <= obtained
          THEN /\ closes[h] <= 1
               /\ closes[h] = 0 => Cardinality(Owners(h)) = 1
               /\ closes[h] = 1 => Owners(h) = {}
          ELSE closes[h] = 0 /\ Owners(h) = {}
    /\ (\A o \in Objects : ~objs[o].alive) =>
          \A h \in 1..obtained : closes[h] = 1

C4_Witness ==
    /\ obtained = MaxHandles
    /\ \A o \in Objects : ~objs[o].alive
    /\ \A h \in Handles : closes[h] = 1
    /\ hLast.op = "destroy"

(***************************************************************************)
(* C10, as amended: a failed open returns false and leaves the object      *)
(* unchanged: the handle it held (if any) is still open and still its own, *)
(* and operator bool reports what it did before; after close() operator    *)
(* bool is false, and it stays false until the next successful open on the *)
(* object or the next move assignment into it.                             *)
(***************************************************************************)
FailedOpenChangesNothing ==
    (hLast'.op = "open" /\ ~hLast'.ret) =>
        /\ objs' = objs
        /\ closes' = closes
        /\ obtained' = obtained
        /\ LET h == objs[hLast'.obj].h
           IN h # Null => closes'[h] = 0 /\ objs'[hLast'.obj].h = h

CloseEmpties ==
    hLast'.op = "close" => objs'[hLast'.obj].h = Null

StaysEmpty(o) ==
    /\ objs[o].alive /\ objs'[o].alive
    /\ objs[o].h = Null /\ objs'[o].h # Null

C10_FailedOpenKeepsObject ==
    [][/\ FailedOpenChangesNothing
       /\ CloseEmpties
       /\ \A o \in Objects :
             StaysEmpty(o) =>
                 \/ hLast' = [op |-> "open", obj |-> o, ret |-> TRUE]
                 \/ hLast' = [op |-> "moveAssign", obj |-> o, ret |-> TRUE]
      ]_vars

C10_Witness ==
    /\ hLast = [op |-> "open", obj |-> "file1", ret |-> FALSE]
    /\ Bool("file1")
    /\ closes[objs["file1"].h] = 0

\* C10 as stated: only a successful open makes operator bool true again
C10_EmptyUntilOpen ==
    [][\A o \in Objects :
          StaysEmpty(o) => hLast' = [op |-> "open", obj |-> o, ret |-> TRUE]
      ]_vars

(***************************************************************************)
(* fs.cpp: fs::File::readAll and fs::File::writeAll                        *)
(***************************************************************************)
MaxSize == 6

\* what std::fread / std::fwrite may return when asked for req bytes
TransferResults(req) == 0..req

\* one evaluation of readAll's loop condition and, while bytes < size_, one
\* pass through its body, in which read returns rc; c is [size, bytes,
\* calls, pc, ret], calls the requests made with their results
readAllPassZeroGoesOn(c, rc) ==
    IF ~(c.bytes < c.size) THEN [c EXCEPT !.pc = "done", !.ret = TRUE]
    ELSE LET asked == Append(c.calls, [req |-> c.size - c.bytes, rc |-> rc])
         IN IF rc < 0
            THEN [c EXCEPT !.calls = asked, !.pc = "done", !.ret = FALSE]
            ELSE [c EXCEPT !.calls = asked, !.bytes = @ + rc]

readAllPass(c, rc) ==
    IF ~(c.bytes < c.size) THEN [c EXCEPT !.pc = "done", !.ret = TRUE]
    ELSE LET asked == Append(c.calls, [req |-> c.size - c.bytes, rc |-> rc])
         IN IF rc <= 0
            THEN [c EXCEPT !.calls = asked, !.pc = "done", !.ret = FALSE]
            ELSE [c EXCEPT !.calls = asked, !.bytes = @ + rc]

writeAllPass(c, rc) ==
    IF ~(c.bytes < c.size) THEN [c EXCEPT !.pc = "done", !.ret = TRUE]
    ELSE LET asked == Append(c.calls, [req |-> c.size - c.bytes, rc |-> rc])
         IN IF rc <= 0
            THEN [c EXCEPT !.calls = asked, !.pc = "done", !.ret = FALSE]
            ELSE [c EXCEPT !.calls = asked, !.bytes = @ + rc]

AllPass(c, rc) ==
    IF c.fn = "readAll" THEN readAllPass(c, rc) ELSE writeAllPass(c, rc)

\* a call of readAll or writeAll with a size_ of 0..MaxSize
IoInit ==
    \E fn \in {"readAll", "writeAll"}, size \in 0..MaxSize :
        io = [fn |-> fn, size |-> size, bytes |-> 0, calls |-> <<>>,
              pc |-> "loop", ret |-> FALSE]

\* the loop body runs: read / write transfers rc bytes
Transfer ==
    /\ io.pc = "loop"
    /\ io.bytes < io.size
    /\ \E rc \in TransferResults(io.size - io.bytes) : io' = AllPass(io, rc)
    /\ UNCHANGED notIo

\* the loop condition fails: return true
ReturnTrue ==
    /\ io.pc = "loop"
    /\ ~(io.bytes < io.size)
    /\ io' = AllPass(io, 0)
    /\ UNCHANGED notIo

IoNext ==
    \/ Transfer
    \/ ReturnTrue

(***************************************************************************)
(* C6: readAll and writeAll retry partial transfers until the requested    *)
(* length is satisfied: the loop terminates (every pass but the last       *)
(* transfers at least one byte, and an unfinished call can always take a   *)
(* step); it returns true exactly when the counts returned sum to the      *)
(* requested size, returns false as soon as one call returns 0 or less,    *)
(* never asks for more than the bytes still missing, and with a size of 0  *)
(* returns true without calling read / write.                              *)
(***************************************************************************)
RECURSIVE Transferred(_)
Transferred(calls) ==
    IF calls = <<>> THEN 0
    ELSE calls[Len(calls)].rc + Transferred(SubSeq(calls, 1, Len(calls) - 1))

C6_RetriesUntilSatisfied ==
    io.pc # "idle" =>
        LET n == Len(io.calls)
            failed == {i \in 1..n : io.calls[i].rc <= 0}
        IN /\ n <= io.size
           /\ io.pc = "loop" => ENABLED IoNext
           /\ \A i \in 1..n :
                 io.calls[i].req
                     <= io.size - Transferred(SubSeq(io.calls, 1, i - 1))
           /\ failed # {} => failed = {n} /\ io.pc = "done" /\ ~io.ret
           /\ io.pc = "done" =>
                 /\ io.ret = (Transferred(io.calls) = io.size)
                 /\ ~io.ret => failed # {}
           /\ io.size = 0 => n = 0 /\ (io.pc = "done" => io.ret)

C6_Witness ==
    /\ io.pc = "done"
    /\ io.fn = "readAll"
    /\ io.size = MaxSize
    /\ io.ret
    /\ Len(io.calls) = 3

(***************************************************************************)
(* fs.cpp: fs::File::seek.  Unsigned values are little-endian sequences of *)
(* 16-bit limbs; a signed value is [neg, mag], mag the limbs of its        *)
(* magnitude.                                                              *)
(***************************************************************************)
LimbBase == 2^16

\* the data models the program is built for: the widths of std::size_t and
\* of long, in bits
Builds ==
    { [name |-> "LP64", size_t |-> 64, long |-> 64],
      [name |-> "ILP32", size_t |-> 32, long |-> 32] }

\* conversion to an unsigned type of the given width: the low bits
ToUnsigned(limbs, bits) == SubSeq(limbs, 1, bits \div 16)

\* the limbs of 2^(16 * Len(limbs)) - value
RECURSIVE AddOne(_)
AddOne(limbs) ==
    IF limbs = <<>> THEN <<>>
    ELSE IF Head(limbs) = LimbBase - 1 THEN <<0>> \o AddOne(Tail(limbs))
    ELSE <<Head(limbs) + 1>> \o Tail(limbs)

TwosComplement(limbs) ==
    AddOne([i \in 1..Len(limbs) |-> LimbBase - 1 - limbs[i]])

\* conversion of an unsigned value to the signed type of the same width
ToSigned(limbs) ==
    IF limbs[Len(limbs)] >= LimbBase \div 2
    THEN [neg |-> TRUE, mag |-> TwosComplement(limbs)]
    ELSE [neg |-> FALSE, mag |-> limbs]

\* limbs without its high zero limbs
RECURSIVE Normal(_)
Normal(limbs) ==
    IF limbs # <<>> /\ limbs[Len(limbs)] = 0
    THEN Normal(SubSeq(limbs, 1, Len(limbs) - 1))
    ELSE limbs

\* fs::File::seek: the caller's offset becomes the std::size_t pos_, which
\* std::fseek takes as a long
seek(build, offset) ==
    ToSigned(ToUnsigned(ToUnsigned(offset, build.size_t), build.long))

LimbInputs == {0, 1, 32767, 32768, 65535}

\* a call of seek (pos, SEEK_SET) with a 64-bit position
SkInit ==
    \E build \in Builds, l1 \in LimbInputs, l2 \in LimbInputs,
       l3 \in LimbInputs, l4 \in LimbInputs :
        sk = [pc |-> "call", build |-> build, pos |-> <<l1, l2, l3, l4>>,
              arg |-> [neg |-> FALSE, mag |-> <<>>]]

Seek ==
    /\ sk.pc = "call"
    /\ sk' = [sk EXCEPT !.pc = "done", !.arg = seek(sk.build, sk.pos)]
    /\ UNCHANGED notSk

(***************************************************************************)
(* C5: for every position in 0..2^64-1, seek (pos, SEEK_SET) passes        *)
(* exactly pos to the stream's seek: nothing is truncated and the sign     *)
(* does not change.  Stated for the build whose std::size_t and long are   *)
(* both 64 bits wide, the one on which no bit of the position is dropped.  *)
(***************************************************************************)
C5_SeekPassesPosition ==
    (sk.pc = "done" /\ sk.build.name = "LP64") =>
        /\ ~sk.arg.neg
        /\ Normal(sk.arg.mag) = Normal(sk.pos)

(***************************************************************************)
(* fs.cpp: fs::printSize.  Sizes are little-endian sequences of base-1024  *)
(* limbs, so that a binary unit is a shift by whole limbs; a std::uint64_t *)
(* is seven limbs, the highest below 16.                                   *)
(***************************************************************************)
Base == 2^10

RECURSIVE Trim(_)
Trim(a) ==
    IF a # <<>> /\ a[Len(a)] = 0 THEN Trim(SubSeq(a, 1, Len(a) - 1)) ELSE a

RECURSIVE MulCarry(_, _, _)
MulCarry(a, c, carry) ==
    IF a = <<>>
    THEN IF carry = 0 THEN <<>> ELSE <<carry % Base>> \o MulCarry(<<>>, c, carry \div Base)
    ELSE LET t == Head(a) * c + carry
         IN <<t % Base>> \o MulCarry(Tail(a), c, t \div Base)

\* c * a, a * 1024^k, a / 1024^k and a mod 1024^k, as mathematical integers
Times(c, a) == Trim(MulCarry(a, c, 0))
ShiftUp(a, k) == IF Trim(a) = <<>> THEN <<>> ELSE [i \in 1..k |-> 0] \o Trim(a)
ShiftDown(a, k) == Trim(SubSeq(a, k + 1, Len(a)))
LowLimbs(a, k) == Trim(SubSeq(a, 1, IF k < Len(a) THEN k ELSE Len(a)))

\* a >= b
AtLeast(a, b) ==
    LET x == Trim(a)
        y == Trim(b)
    IN \/ Len(x) > Len(y)
       \/ /\ Len(x) = Len(y)
          /\ \A i \in 1..Len(x) :
                (\A j \in (i + 1)..Len(x) : x[j] = y[j]) => x[i] >= y[i]

\* the value of a sequence of limbs that denotes a small number
RECURSIVE Small(_)
Small(a) == IF a = <<>> THEN 0 ELSE Head(a) + Base * Small(Tail(a))

\* a result of std::uint64_t arithmetic: the value modulo 2^64
Wrap64(a) ==
    Trim([i \in 1..(IF Len(a) < 7 THEN Len(a) ELSE 7) |->
             IF i = 7 THEN a[i] % 16 ELSE a[i]])

UnitNames ==
    <<<<"K", "i", "B">>, <<"M", "i", "B">>, <<"G", "i", "B">>,
      <<"T", "i", "B">>, <<"P", "i", "B">>, <<"E", "i", "B">>>>

\* the constants KiB..EiB: unit k is 1024^k
Unit(k) == ShiftUp(<<1>>, k)

\* %02 PRIu64
Pad2(n) == IF n < 10 THEN <<"0">> \o FormatU(n) ELSE FormatU(n)

\* the body of printSize's loop for the unit 1024^k: the text returned, or
\* <<>> when the loop goes on to the next unit
printSizeUnit(size_, k) ==
    LET bin == Unit(k)
        whole == ShiftDown(size_, k)
        frac == LowLimbs(size_, k)
    IN IF AtLeast(size_, Wrap64(Times(100, bin)))
       THEN FormatU(Small(whole)) \o UnitNames[k]
       ELSE IF AtLeast(size_, Wrap64(Times(10, bin)))
       THEN FormatU(Small(whole)) \o <<".">>
            \o FormatU(Small(ShiftDown(Wrap64(Times(10, frac)), k)))
            \o UnitNames[k]
       ELSE IF AtLeast(size_, Wrap64(Times(1000, ShiftDown(bin, 1))))
       THEN FormatU(Small(whole)) \o <<".">>
            \o Pad2(Small(ShiftDown(Wrap64(Times(100, frac)), k)))
            \o UnitNames[k]
       ELSE <<>>

\* the loop over EiB, PiB, ..., KiB and the plain byte count after it
RECURSIVE printSizeFrom(_, _)
printSizeFrom(size_, k) ==
    IF k = 0 THEN FormatU(Small(size_))
    ELSE LET text == printSizeUnit(size_, k)
         IN IF text # <<>> THEN text ELSE printSizeFrom(size_, k - 1)

printSize(size_) == printSizeFrom(Trim(size_), 6)

\* sizes: limb `at` is lead, the limb below it is next, the limbs below that
\* are all fill, the limbs above are 0
SizeWith(at, lead, next, fill) ==
    [i \in 1..7 |-> IF i = at THEN lead
                    ELSE IF i > at THEN 0
                    ELSE IF i = at - 1 THEN next
                    ELSE fill]

LeadInputs == {1, 9, 10, 99, 100, 999, 1000, 1023}
TopInputs == {1, 3, 4, 9, 10, 15}
NextInputs == {0, 163, 164, 512, 1023}
FillInputs == {0, 1023}

SizeInputs ==
    {SizeWith(at, lead, next, fill) :
        at \in 1..6, lead \in LeadInputs, next \in NextInputs,
        fill \in FillInputs}
    \cup {SizeWith(7, lead, next, fill) :
            lead \in TopInputs, next \in NextInputs, fill \in FillInputs}
    \cup {SizeWith(1, 0, 0, 0)}

PsInit == \E size \in SizeInputs : ps = [pc |-> "call", size |-> size, out |-> <<>>]

PrintSize ==
    /\ ps.pc = "call"
    /\ ps' = [ps EXCEPT !.pc = "done", !.out = printSize(ps.size)]
    /\ UNCHANGED notPs

(***************************************************************************)
(* C9: printSize prints sizes below 1000 as the plain byte count;          *)
(* otherwise it takes the largest unit of KiB..EiB with                    *)
(* size >= 1000 * (unit / 1024) and prints floor(size / unit) with no      *)
(* decimals when size >= 100 * unit, with the one decimal digit            *)
(* floor(10 * (size mod unit) / unit) when size >= 10 * unit, and with the *)
(* two decimal digits floor(100 * (size mod unit) / unit) otherwise, all   *)
(* products taken as mathematical integers (none wraps modulo 2^64).       *)
(***************************************************************************)
ExactUnits(size) ==
    {k \in 1..6 : AtLeast(size, Times(1000, Unit(k - 1)))}

ExactText(size) ==
    IF ExactUnits(size) = {} THEN FormatU(Small(Trim(size)))
    ELSE LET k == CHOOSE u \in ExactUnits(size) : \A v \in ExactUnits(size) : v <= u
             unit == Unit(k)
             whole == Small(ShiftDown(size, k))
             rest == LowLimbs(size, k)
         IN IF AtLeast(size, Times(100, unit))
            THEN FormatU(whole) \o UnitNames[k]
            ELSE IF AtLeast(size, Times(10, unit))
            THEN FormatU(whole) \o <<".">>
                 \o FormatU(Small(ShiftDown(Times(10, rest), k)))
                 \o UnitNames[k]
            ELSE FormatU(whole) \o <<".">>
                 \o Pad2(Small(ShiftDown(Times(100, rest), k)))
                 \o UnitNames[k]

C9_PrintSizeExact ==
    ps.pc = "done" => ps.out = ExactText(ps.size)

(***************************************************************************)
(* Specifications                                                          *)
(***************************************************************************)
CfgIdle == InitCreate
IoIdle ==
    io = [fn |-> "none", size |-> 0, bytes |-> 0, calls |-> <<>>,
          pc |-> "idle", ret |-> FALSE]
SkIdle ==
    sk = [pc |-> "idle", build |-> "none", pos |-> <<>>,
          arg |-> [neg |-> FALSE, mag |-> <<>>]]
PsIdle == ps = [pc |-> "idle", size |-> <<>>, out |-> <<>>]

ConfigInit ==
    /\ InitCreate \/ InitLoad \/ InitLoadMissing
    /\ FsInit /\ IoIdle /\ SkIdle /\ PsIdle

ConfigNext ==
    \/ SetPortStr
    \/ SetPort
    \/ SetDeflateLevelStr
    \/ SetDeflateLevel
    \/ SetUser
    \/ SetPass

SpecConfig == ConfigInit /\ [][ConfigNext]_vars

PersistInit == InitCreate /\ FsInit /\ IoIdle /\ SkIdle /\ PsIdle

PersistNext ==
    \/ SetPort
    \/ SetDeflateLevel
    \/ SetUser
    \/ SetPass
    \/ Save
    \/ Load

SpecPersist == PersistInit /\ [][PersistNext]_vars

HandlesInit == CfgIdle /\ FsInit /\ IoIdle /\ SkIdle /\ PsIdle

SpecHandles == HandlesInit /\ [][HandlesNext]_vars

IoSpecInit == CfgIdle /\ FsInit /\ IoInit /\ SkIdle /\ PsIdle

SpecIo == IoSpecInit /\ [][IoNext]_vars

SeekInit == CfgIdle /\ FsInit /\ IoIdle /\ SkInit /\ PsIdle

SeekNext == Seek

SpecSeek == SeekInit /\ [][SeekNext]_vars

PrintSizeInit == CfgIdle /\ FsInit /\ IoIdle /\ SkIdle /\ PsInit

PrintSizeNext == PrintSize

SpecPrintSize == PrintSizeInit /\ [][PrintSizeNext]_vars

====
